---------------------------- MODULE Spec2Model ----------------------------
(***************************************************************************)
(* Model of the App component of src/project/src/App.tsx: the six React   *)
(* state cells, the url effect, processUrl with its pending simulated     *)
(* fetches, clearAndReset and handleDownload.                             *)
(*                                                                         *)
(* Strings the code inspects character by character (the url) are         *)
(* sequences of one-character strings; messages and labels the code only  *)
(* stores and compares are TLA+ strings.                                  *)
(***************************************************************************)
EXTENDS Integers, Sequences, FiniteSets, TLC

(***************************************************************************)
(* Bounds of the model.                                                    *)
(***************************************************************************)
\* number of simulated fetches one behaviour may start
MaxFetches == 2

(***************************************************************************)
(* JavaScript values.                                                      *)
(***************************************************************************)
\* null in a cell that otherwise holds an object
Null == [null |-> TRUE]
\* null in a cell that otherwise holds a string
NullStr == "<null>"
\* undefined, as a field value and as interpolated into a template string
Undefined == "undefined"

UpperChars == <<"A", "B", "C", "D", "E", "F", "G", "H", "I", "J", "K", "L", "M", "N", "O", "P", "Q", "R", "S", "T", "U", "V", "W", "X", "Y", "Z">>
LowerChars == <<"a", "b", "c", "d", "e", "f", "g", "h", "i", "j", "k", "l", "m", "n", "o", "p", "q", "r", "s", "t", "u", "v", "w", "x", "y", "z">>
DigitChars == <<"0", "1", "2", "3", "4", "5", "6", "7", "8", "9">>

Range(s) == {s[i] : i \in 1..Len(s)}

\* String.prototype.toLowerCase on one character
LowerChar(c) ==
  IF \E i \in 1..Len(UpperChars) : UpperChars[i] = c
    THEN LowerChars[CHOOSE i \in 1..Len(UpperChars) : UpperChars[i] = c]
    ELSE c

\* String.prototype.toLowerCase
toLowerCase(s) == [i \in 1..Len(s) |-> LowerChar(s[i])]

\* String.prototype.includes
includes(s, sub) ==
  \E i \in 0..(Len(s) - Len(sub)) : SubSeq(s, i + 1, i + Len(sub)) = sub

\* String.prototype.trim (the only white space of the model's alphabet is " ")
RECURSIVE trim(_)
trim(s) ==
  IF s = <<>> THEN s
  ELSE IF Head(s) = " " THEN trim(Tail(s))
  ELSE IF s[Len(s)] = " " THEN trim(SubSeq(s, 1, Len(s) - 1))
  ELSE s

\* the least index of s, from index from on, whose character is in stops;
\* Len(s) + 1 when there is none
FirstOf(s, from, stops) ==
  IF \E i \in from..Len(s) : s[i] \in stops
    THEN CHOOSE i \in from..Len(s) :
           s[i] \in stops /\ \A j \in from..(i - 1) : s[j] \notin stops
    ELSE Len(s) + 1

(***************************************************************************)
(* The platforms table.                                                    *)
(***************************************************************************)
platforms ==
  [instagram |-> [name |-> "Instagram", supported |-> TRUE],
   twitter   |-> [name |-> "X (Twitter)", supported |-> TRUE],
   facebook  |-> [name |-> "Facebook", supported |-> TRUE],
   threads   |-> [name |-> "Threads", supported |-> TRUE],
   default   |-> [name |-> "Unknown Platform", supported |-> FALSE]]

s_instagram == <<"i", "n", "s", "t", "a", "g", "r", "a", "m", ".", "c", "o", "m">>
s_twitter == <<"t", "w", "i", "t", "t", "e", "r", ".", "c", "o", "m">>
s_x == <<"x", ".", "c", "o", "m">>
s_facebook == <<"f", "a", "c", "e", "b", "o", "o", "k", ".", "c", "o", "m">>
s_fb == <<"f", "b", ".", "c", "o", "m">>
s_threads == <<"t", "h", "r", "e", "a", "d", "s", ".", "n", "e", "t">>

\* variant: the twitter test comes before the instagram test
detectPlatform_TwitterFirst(inputUrl) ==
  LET urlLower == toLowerCase(inputUrl) IN
    IF includes(urlLower, s_twitter) \/ includes(urlLower, s_x)
      THEN platforms.twitter
    ELSE IF includes(urlLower, s_instagram) THEN platforms.instagram
    ELSE IF includes(urlLower, s_facebook) \/ includes(urlLower, s_fb)
      THEN platforms.facebook
    ELSE IF includes(urlLower, s_threads) THEN platforms.threads
    ELSE platforms.default

detectPlatform(inputUrl) ==
  LET urlLower == toLowerCase(inputUrl) IN
    IF includes(urlLower, s_instagram) THEN platforms.instagram
    ELSE IF includes(urlLower, s_twitter) \/ includes(urlLower, s_x)
      THEN platforms.twitter
    ELSE IF includes(urlLower, s_facebook) \/ includes(urlLower, s_fb)
      THEN platforms.facebook
    ELSE IF includes(urlLower, s_threads) THEN platforms.threads
    ELSE platforms.default

(***************************************************************************)
(* new URL(inputUrl) without a base, as far as the model's alphabet goes:  *)
(* strip surrounding spaces, read the scheme, and for a scheme followed by *)
(* an authority read credentials, host and port.  Parsing fails when there *)
(* is no scheme, when a special scheme has an empty host, when the host    *)
(* holds a forbidden code point or when the port is not a number below     *)
(* 65536.  IPv4/IPv6 literals, IDNA and percent-decoding are not modelled. *)
(***************************************************************************)
AlphaChars == Range(UpperChars) \cup Range(LowerChars)
SchemeChars == AlphaChars \cup Range(DigitChars) \cup {"+", "-", "."}
SpecialSchemes ==
  {<<"h", "t", "t", "p">>, <<"h", "t", "t", "p", "s">>, <<"f", "t", "p">>,
   <<"w", "s">>, <<"w", "s", "s">>}
ForbiddenHostChars ==
  {" ", "#", "/", ":", "<", ">", "?", "@", "[", "\\", "]", "^", "|", "%"}

\* index of the ":" that ends the scheme, 0 when the input has no scheme
SchemeEnd(s) ==
  LET k == FirstOf(s, 1, Range(s) \ SchemeChars) IN
    IF s # <<>> /\ s[1] \in AlphaChars /\ k <= Len(s) /\ s[k] = ":"
      THEN k ELSE 0

\* value of a string of digits, 65536 once it exceeds the port range
RECURSIVE PortValue(_, _)
PortValue(digits, acc) ==
  IF digits = <<>> \/ acc > 65535 THEN (IF acc > 65535 THEN 65536 ELSE acc)
  ELSE PortValue(Tail(digits),
         10 * acc + (CHOOSE d \in 0..9 : DigitChars[d + 1] = Head(digits)))

\* the authority auth (text between the slashes and the path) parses
AuthorityParses(auth, special) ==
  LET ats      == {i \in 1..Len(auth) : auth[i] = "@"}
      lastAt   == IF ats = {} THEN 0
                  ELSE CHOOSE i \in ats : \A j \in ats : j <= i
      hostport == SubSeq(auth, lastAt + 1, Len(auth))
      colon    == FirstOf(hostport, 1, {":"})
      host     == SubSeq(hostport, 1, colon - 1)
      port     == SubSeq(hostport, colon + 1, Len(hostport))
  IN  /\ special => host # <<>>
      /\ Range(host) \cap ForbiddenHostChars = {}
      /\ Range(port) \subseteq Range(DigitChars)
      /\ PortValue(port, 0) <= 65535

UrlParses(input) ==
  LET s == trim(input)
      k == SchemeEnd(s)
  IN  /\ k # 0
      /\ LET scheme  == toLowerCase(SubSeq(s, 1, k - 1))
             rest    == SubSeq(s, k + 1, Len(s))
             special == scheme \in SpecialSchemes
             slashes == IF special THEN {"/", "\\"} ELSE {"/"}
             \* a special scheme skips every leading slash, any other
             \* scheme has an authority only after exactly "//"
             start   == IF special
                          THEN FirstOf(rest, 1, Range(rest) \ slashes)
                          ELSE 3
             hasAuth == special \/
                        (Len(rest) >= 2 /\ rest[1] = "/" /\ rest[2] = "/")
             stop    == FirstOf(rest, start, slashes \cup {"?", "#"})
         IN  hasAuth =>
               AuthorityParses(SubSeq(rest, start, stop - 1), special)

\* try { new URL(inputUrl); return true } catch { return false }
validateUrl(inputUrl) == UrlParses(inputUrl)

(***************************************************************************)
(* The texts a user enters.                                                *)
(***************************************************************************)
Empty == <<>>
Blank == <<" ">>
NotAUrl == <<"n", "o", "t", " ", "a", " ", "u", "r", "l">>
Insta == <<"h", "t", "t", "p", "s", ":", "/", "/", "i", "n", "s", "t", "a", "g", "r", "a", "m", ".", "c", "o", "m", "/", "p", "/", "x", "y", "z">>
XCom == <<"H", "T", "T", "P", "S", ":", "/", "/", "X", ".", "c", "o", "m", "/", "a">>
TikTok == <<"h", "t", "t", "p", "s", ":", "/", "/", "t", "i", "k", "t", "o", "k", ".", "c", "o", "m", "/", "@", "u", "s", "e", "r", "/", "v", "i", "d", "e", "o", "/", "1">>

Inputs == {Empty, Blank, NotAUrl, Insta, XCom, TikTok}

(***************************************************************************)
(* State.  The first six variables are the useState cells of App.  pending *)
(* holds the processUrl calls suspended at their await: one record per     *)
(* timer of fetchMediaContent that has not fired, with the arguments the   *)
(* call captured.  The remaining variables are history: nextId numbers the *)
(* fetches in the order they are started, fresh tells that the input has   *)
(* not changed since the most recent fetch was started, and last describes *)
(* the handler that produced the current state.                            *)
(***************************************************************************)
VARIABLES url, isValidUrl, detectedPlatform, isProcessing, mediaContent,
          error, pending, nextId, fresh, last

cells == <<url, isValidUrl, detectedPlatform, isProcessing, mediaContent, error>>
vars == <<url, isValidUrl, detectedPlatform, isProcessing, mediaContent,
          error, pending, nextId, fresh, last>>

UnsupportedMessage ==
  "This platform is not supported yet. We support Instagram, Facebook, X (Twitter), and Threads."
FailedMessage ==
  "Failed to process the URL. Please check the link and try again."

\* the history record of a handler run
Event(kind, started, id, ok, link) ==
  [kind |-> kind, started |-> started, id |-> id, ok |-> ok, link |-> link]

Init ==
  /\ url = <<>>
  /\ isValidUrl = FALSE
  /\ detectedPlatform = Null
  /\ isProcessing = FALSE
  /\ mediaContent = Null
  /\ error = NullStr
  /\ pending = {}
  /\ nextId = 1
  /\ fresh = FALSE
  /\ last = Event("init", 0, 0, FALSE, Null)

(***************************************************************************)
(* fetchMediaContent: the values Math.random() is sampled at.              *)
(***************************************************************************)
\* Math.floor(Math.random() * 2000), twice
RandPhoto == {0}
\* Math.floor(Math.random() * 3)
RandMinutes == {2}
\* Math.floor(Math.random() * 60)
RandSeconds == {5}
Resolutions == <<"720p", "1080p", "4K">>
\* Math.floor(Math.random() * 3)
RandResolution == {0, 2}

\* n.toString().padStart(2, '0') for 0 <= n < 100
padStart2(n) == IF n < 10 THEN "0" \o ToString(n) ELSE ToString(n)

\* variant: the duration is generated whatever the type
mockContent_AlwaysDuration(inputUrl, platform, isVideo, a, b, m, sec, r) ==
  [type        |-> IF isVideo THEN "video" ELSE "image",
   thumbnail   |-> "https://images.pexels.com/photos/" \o ToString(1000 + a)
                   \o "/pexels-photo-" \o ToString(1000 + b)
                   \o ".jpeg?auto=compress&cs=tinysrgb&w=400",
   downloadUrl |-> inputUrl,
   title       |-> platform.name \o " " \o (IF isVideo THEN "Video" ELSE "Image"),
   duration    |-> ToString(m + 1) \o ":" \o padStart2(sec),
   resolution  |-> Resolutions[r + 1]]

mockContent(inputUrl, platform, isVideo, a, b, m, sec, r) ==
  [type        |-> IF isVideo THEN "video" ELSE "image",
   thumbnail   |-> "https://images.pexels.com/photos/" \o ToString(1000 + a)
                   \o "/pexels-photo-" \o ToString(1000 + b)
                   \o ".jpeg?auto=compress&cs=tinysrgb&w=400",
   downloadUrl |-> inputUrl,
   title       |-> platform.name \o " " \o (IF isVideo THEN "Video" ELSE "Image"),
   duration    |-> IF isVideo THEN ToString(m + 1) \o ":" \o padStart2(sec)
                   ELSE Undefined,
   resolution  |-> Resolutions[r + 1]]

\* what the promise of fetchMediaContent can settle to: a rejection or one
\* of the contents the random draws can produce
Rejected == [rejected |-> TRUE]
fetchMediaContent(inputUrl, platform) ==
  {Rejected}
  \cup {mockContent(inputUrl, platform, TRUE, a, b, m, sec, r) :
          a \in RandPhoto, b \in RandPhoto, m \in RandMinutes,
          sec \in RandSeconds, r \in RandResolution}
  \cup {mockContent(inputUrl, platform, FALSE, a, b, 0, 0, r) :
          a \in RandPhoto, b \in RandPhoto, r \in RandResolution}

(***************************************************************************)
(* processUrl.  The function is the closure of the render that scheduled   *)
(* the effect, so its guard reads isValidUrl and detectedPlatform as they  *)
(* were before the effect's own setIsValidUrl and setDetectedPlatform.     *)
(***************************************************************************)
processUrlProceeds ==
  isValidUrl /\ detectedPlatform # Null /\ detectedPlatform.supported

\* lines 104-112: up to the await
processUrl(inputUrl) ==
  IF ~processUrlProceeds
    THEN UNCHANGED <<isProcessing, error, mediaContent, pending, nextId>>
    ELSE /\ isProcessing' = TRUE
         /\ error' = NullStr
         /\ mediaContent' = Null
         /\ pending' = pending \cup
              {[id |-> nextId, inputUrl |-> inputUrl, platform |-> detectedPlatform]}
         /\ nextId' = nextId + 1

\* variant: setIsProcessing(false) at the end of the try block, no finally
processUrlSettled_NoFinally(outcome) ==
  IF outcome # Rejected
    THEN mediaContent' = outcome /\ isProcessing' = FALSE /\ UNCHANGED error
    ELSE error' = FailedMessage /\ UNCHANGED <<mediaContent, isProcessing>>

\* lines 113-118: after the await, whatever the cells hold by then
processUrlSettled(outcome) ==
  /\ IF outcome # Rejected
       THEN mediaContent' = outcome /\ UNCHANGED error
       ELSE error' = FailedMessage /\ UNCHANGED mediaContent
  /\ isProcessing' = FALSE

(***************************************************************************)
(* The effect on [url], run with the new url and the cells of the render   *)
(* in which url changed.                                                   *)
(***************************************************************************)
\* variant: the else branch that sets the advisory message is missing
EffectUnsupported_NoAdvisory ==
  UNCHANGED <<error, isProcessing, mediaContent, pending, nextId>>

EffectUnsupported ==
  /\ error' = UnsupportedMessage
  /\ UNCHANGED <<isProcessing, mediaContent, pending, nextId>>

\* variant: setMediaContent(null) and setError(null) are missing
EffectInvalid_KeepsOutcome ==
  /\ detectedPlatform' = Null
  /\ UNCHANGED <<mediaContent, error, isProcessing, pending, nextId>>

\* variant: setDetectedPlatform(null) is missing
EffectInvalid_KeepsPlatform ==
  /\ mediaContent' = Null
  /\ error' = NullStr
  /\ UNCHANGED <<detectedPlatform, isProcessing, pending, nextId>>

EffectInvalid ==
  /\ detectedPlatform' = Null
  /\ mediaContent' = Null
  /\ error' = NullStr
  /\ UNCHANGED <<isProcessing, pending, nextId>>

\* variant: setIsProcessing(false) is missing
EffectEmpty_KeepsProcessing ==
  /\ isValidUrl' = FALSE
  /\ detectedPlatform' = Null
  /\ mediaContent' = Null
  /\ error' = NullStr
  /\ UNCHANGED <<isProcessing, pending, nextId>>

EffectEmpty ==
  /\ isValidUrl' = FALSE
  /\ detectedPlatform' = Null
  /\ mediaContent' = Null
  /\ error' = NullStr
  /\ isProcessing' = FALSE
  /\ UNCHANGED <<pending, nextId>>

useEffect(u) ==
  IF trim(u) # <<>>
    THEN LET valid == validateUrl(u) IN
           /\ isValidUrl' = valid
           /\ IF valid
                THEN LET platform == detectPlatform(u) IN
                       /\ detectedPlatform' = platform
                       /\ IF platform.supported
                            THEN processUrl(u)
                            ELSE EffectUnsupported
                ELSE EffectInvalid
    ELSE EffectEmpty

(***************************************************************************)
(* Handlers.                                                               *)
(***************************************************************************)
\* the effect run for u reaches the await of processUrl
StartsFetch(u) ==
  /\ trim(u) # <<>>
  /\ validateUrl(u)
  /\ detectPlatform(u).supported
  /\ processUrlProceeds

\* onChange of the input: setUrl(e.target.value), the render, the effect;
\* a change that would start a fetch beyond MaxFetches is left out
InputChange(u) ==
  /\ u # url
  /\ StartsFetch(u) => nextId <= MaxFetches
  /\ url' = u
  /\ useEffect(u)
  /\ fresh' = (nextId' # nextId)
  /\ last' = Event("input", nextId' - nextId, 0, FALSE, Null)

\* variant: setMediaContent(null) is missing
clearAndReset_KeepsResult ==
  /\ url' = <<>>
  /\ isValidUrl' = FALSE
  /\ detectedPlatform' = Null
  /\ isProcessing' = FALSE
  /\ error' = NullStr
  /\ UNCHANGED mediaContent

\* the six setters of clearAndReset
clearAndReset ==
  /\ url' = <<>>
  /\ isValidUrl' = FALSE
  /\ detectedPlatform' = Null
  /\ isProcessing' = FALSE
  /\ mediaContent' = Null
  /\ error' = NullStr

\* onClick of either reset button; the effect runs when url was not empty
Reset ==
  /\ clearAndReset
  /\ IF url # <<>> THEN EffectEmpty ELSE UNCHANGED <<pending, nextId>>
  /\ fresh' = FALSE
  /\ last' = Event("reset", 0, 0, FALSE, Null)

\* the timer of one pending fetch fires and its processUrl call resumes
FetchSettles(f, outcome) ==
  /\ f \in pending
  /\ outcome \in fetchMediaContent(f.inputUrl, f.platform)
  /\ processUrlSettled(outcome)
  /\ pending' = pending \ {f}
  /\ last' = Event("settle", 0, f.id, outcome # Rejected, Null)
  /\ UNCHANGED <<url, isValidUrl, detectedPlatform, nextId, fresh>>

\* Date.now()
RandNow == {1}

\* variant: the guard on mediaContent is missing and the link falls back to
\* the text of the input
handleDownload_NoGuard ==
  /\ last' = Event("download", 0, 0, FALSE,
               [href     |-> IF mediaContent = Null THEN url
                             ELSE mediaContent.downloadUrl,
                download |-> "download",
                target   |-> "_blank"])
  /\ UNCHANGED <<url, isValidUrl, detectedPlatform, isProcessing,
                 mediaContent, error, pending, nextId, fresh>>

\* onClick of the download button: the anchor that is clicked, if any
handleDownload ==
  /\ last' = IF mediaContent = Null
               THEN Event("download", 0, 0, FALSE, Null)
               ELSE Event("download", 0, 0, FALSE,
                      [href     |-> mediaContent.downloadUrl,
                       download |->
                         (IF detectedPlatform = Null THEN Undefined
                          ELSE detectedPlatform.name)
                         \o "_" \o ToString(CHOOSE t \in RandNow : TRUE) \o "."
                         \o (IF mediaContent.type = "video" THEN "mp4" ELSE "jpg"),
                       target   |-> "_blank"])
  /\ UNCHANGED <<url, isValidUrl, detectedPlatform, isProcessing,
                 mediaContent, error, pending, nextId, fresh>>

Next ==
  \/ \E u \in Inputs : InputChange(u)
  \/ Reset
  \/ \E f \in pending : \E outcome \in fetchMediaContent(f.inputUrl, f.platform) :
       FetchSettles(f, outcome)
  \/ handleDownload

Spec == Init /\ [][Next]_vars

(***************************************************************************)
(* Fairness: a timer set by setTimeout fires, so every pending fetch       *)
(* settles.  Nothing obliges the user to act.                              *)
(***************************************************************************)
TimerFires(id) ==
  \E f \in pending :
    /\ f.id = id
    /\ \E outcome \in fetchMediaContent(f.inputUrl, f.platform) :
         FetchSettles(f, outcome)

LiveSpec == Spec /\ \A id \in 1..MaxFetches : WF_vars(TimerFires(id))

(***************************************************************************)
(* Vocabulary of the properties.                                           *)
(***************************************************************************)
IdleCells == <<(<<>>), FALSE, Null, FALSE, Null, NullStr>>

KnownHosts == {s_instagram, s_twitter, s_x, s_facebook, s_fb, s_threads}
NoKnownHost(u) == \A sub \in KnownHosts : ~includes(toLowerCase(u), sub)

\* the fetch started most recently, while it is pending
LatestPending == \E f \in pending : f.id = nextId - 1
\* this step settles fetch f
Settles(f) == f \in pending /\ f \notin pending'
\* this step is an input change or a reset
InputOrResetStep == last'.kind \in {"input", "reset"}

(***************************************************************************)
(* C1.  When a fetch settles after a later fetch has been started, its     *)
(* settling changes none of isProcessing, mediaContent and error.          *)
(***************************************************************************)
C1_StaleResultDiscarded ==
  [][\A f \in pending :
       (Settles(f) /\ f.id < nextId - 1)
         => UNCHANGED <<isProcessing, mediaContent, error>>]_vars

(***************************************************************************)
(* C2.  Right after an input change to a valid URL of a supported          *)
(* platform, whatever the state before, the result and the error are       *)
(* absent, isProcessing is true and exactly one fetch was started, for     *)
(* that URL.                                                               *)
(***************************************************************************)
C2_SupportedInputStartsFetch ==
  (last.kind = "input" /\ trim(url) # <<>> /\ validateUrl(url)
     /\ detectPlatform(url).supported)
  => /\ mediaContent = Null
     /\ error = NullStr
     /\ isProcessing
     /\ last.started = 1
     /\ \E f \in pending : f.id = nextId - 1 /\ f.inputUrl = url

(***************************************************************************)
(* C3.  mediaContent and error are never both present.                     *)
(***************************************************************************)
C3_ResultErrorExclusive == ~(mediaContent # Null /\ error # NullStr)

(***************************************************************************)
(* C4.  Right after an input change to a valid URL that contains none of   *)
(* the known host substrings, isValidUrl is true, the platform is the      *)
(* unsupported default descriptor, error is the advisory message and the   *)
(* change started no fetch.                                                *)
(***************************************************************************)
C4_UnsupportedAdvisory ==
  (last.kind = "input" /\ url # <<>> /\ validateUrl(url) /\ NoKnownHost(url))
  => /\ isValidUrl
     /\ detectedPlatform = platforms.default
     /\ ~detectedPlatform.supported
     /\ error = UnsupportedMessage
     /\ last.started = 0

\* an unsupported URL was entered while a fetch was pending
C4_Witness ==
  /\ last.kind = "input" /\ url = TikTok /\ pending # {}
  /\ detectedPlatform = platforms.default /\ error = UnsupportedMessage

(***************************************************************************)
(* C5.  Right after an input change to a non-empty text that is no valid   *)
(* URL, isValidUrl is false, platform, result and error are absent and     *)
(* the change started no fetch.                                            *)
(***************************************************************************)
C5_InvalidClears ==
  (last.kind = "input" /\ url # <<>> /\ ~validateUrl(url))
  => /\ ~isValidUrl
     /\ detectedPlatform = Null
     /\ mediaContent = Null
     /\ error = NullStr
     /\ last.started = 0

\* an invalid text was entered while a fetch was pending
C5_Witness ==
  /\ last.kind = "input" /\ url = NotAUrl /\ isProcessing /\ pending # {}
  /\ ~isValidUrl /\ detectedPlatform = Null

(***************************************************************************)
(* C6.  Right after a reset, from whatever state, the six cells hold the   *)
(* idle defaults; so a second reset changes nothing.                       *)
(***************************************************************************)
C6_ResetYieldsIdle == last.kind = "reset" => cells = IdleCells

\* a reset while a fetch was pending
C6_Witness == last.kind = "reset" /\ pending # {} /\ cells = IdleCells

(***************************************************************************)
(* C7.  Right after the input was changed to the empty text, isValidUrl    *)
(* and isProcessing are false and platform, result and error are absent.   *)
(***************************************************************************)
C7_ClearedInputYieldsIdle ==
  (last.kind = "input" /\ url = <<>>)
  => /\ ~isValidUrl
     /\ detectedPlatform = Null
     /\ mediaContent = Null
     /\ error = NullStr
     /\ ~isProcessing

\* the input was emptied while a fetch was pending
C7_Witness ==
  last.kind = "input" /\ url = <<>> /\ pending # {} /\ ~isProcessing

(***************************************************************************)
(* C8.  A result appears only when a fetch settles with success, and       *)
(* right after every input change or reset no result is present.           *)
(***************************************************************************)
C8_ResultLifetime ==
  [][/\ (mediaContent' # Null /\ mediaContent' # mediaContent)
          => \E f \in pending : Settles(f) /\ last'.ok
     /\ InputOrResetStep => mediaContent' = Null]_vars

(***************************************************************************)
(* C9.  Right after the most recently started fetch settles, the input     *)
(* unchanged since it was started: on success the result is stored,        *)
(* isProcessing is false and error is absent; on failure error is the      *)
(* generic message, isProcessing is false and the result is absent.        *)
(***************************************************************************)
C9_LatestSettles ==
  (last.kind = "settle" /\ last.id = nextId - 1 /\ fresh)
  => /\ ~isProcessing
     /\ IF last.ok
          THEN /\ mediaContent # Null
               /\ mediaContent.downloadUrl = url
               /\ error = NullStr
          ELSE /\ error = FailedMessage
               /\ mediaContent = Null

(***************************************************************************)
(* C10.  With timers that fire: every started fetch settles; once a fetch  *)
(* is started, either the input changes again or the session comes to     *)
(* rest, the most recent fetch settled, isProcessing false and a result    *)
(* or an error present; and once at rest it stays at rest, keeping the     *)
(* result or the error it has, until the next input change or reset.       *)
(***************************************************************************)
AtRest ==
  /\ ~LatestPending
  /\ ~isProcessing
  /\ mediaContent # Null \/ error # NullStr

C10_FetchesSettleAndSessionRests ==
  /\ \A id \in 1..MaxFetches :
       (\E f \in pending : f.id = id) ~> ~(\E f \in pending : f.id = id)
  /\ (fresh /\ LatestPending) ~> (~fresh \/ AtRest)
  /\ [][(fresh /\ AtRest /\ ~InputOrResetStep)
          => /\ AtRest'
             /\ mediaContent # Null => mediaContent' # Null
             /\ error # NullStr => error' # NullStr]_vars

\* the most recent fetch has settled last, after an earlier one, and the
\* session is at rest with the input unchanged
C10_Witness ==
  /\ last.kind = "settle" /\ last.id = nextId - 1 /\ nextId > 2
  /\ fresh /\ pending = {} /\ AtRest

(***************************************************************************)
(* C11.  isProcessing is never false while the most recently started       *)
(* fetch, started for the current input, is still pending, and never true  *)
(* when no fetch is pending.                                               *)
(***************************************************************************)
C11_PendingFlagExact ==
  /\ (fresh /\ LatestPending) => isProcessing
  /\ pending = {} => ~isProcessing

(***************************************************************************)
(* C12.  A stored result has type video or image, and it has a duration    *)
(* exactly when its type is video.                                         *)
(***************************************************************************)
C12_DurationIffVideo ==
  mediaContent # Null
  => /\ mediaContent.type \in {"video", "image"}
     /\ (mediaContent.duration # Undefined) <=> (mediaContent.type = "video")

\* an image result is stored, without a duration
C12_Witness ==
  /\ mediaContent # Null
  /\ mediaContent.type = "image"
  /\ mediaContent.duration = Undefined

(***************************************************************************)
(* detectPlatform on its own: the inputs are URLs built from a chosen set  *)
(* of the six host substrings, in either order and in either case, and     *)
(* the one step applies detectPlatform as line 136 does.  last.link        *)
(* remembers the set the input was built from.                             *)
(***************************************************************************)
HostList == <<s_instagram, s_twitter, s_x, s_facebook, s_fb, s_threads>>

\* String.prototype.toUpperCase, to write an input in capitals
toUpperCase(s) ==
  [i \in 1..Len(s) |->
     IF \E k \in 1..Len(LowerChars) : LowerChars[k] = s[i]
       THEN UpperChars[CHOOSE k \in 1..Len(LowerChars) : LowerChars[k] = s[i]]
       ELSE s[i]]

\* "/" and the host substring, for every index of S, ascending or descending
RECURSIVE HostPath(_, _)
HostPath(S, ascending) ==
  IF S = {} THEN <<>>
  ELSE LET i == IF ascending
                  THEN CHOOSE k \in S : \A j \in S : k <= j
                  ELSE CHOOSE k \in S : \A j \in S : k >= j
       IN  <<"/">> \o HostList[i] \o HostPath(S \ {i}, ascending)

ClassifyInput(S, ascending, capitals) ==
  LET u == <<"h", "t", "t", "p", "s", ":", "/", "/", "h">> \o HostPath(S, ascending)
  IN  IF capitals THEN toUpperCase(u) ELSE u

ClassifyInit ==
  /\ \E S \in SUBSET (1..Len(HostList)), ascending \in BOOLEAN, capitals \in BOOLEAN :
       /\ url = ClassifyInput(S, ascending, capitals)
       /\ last = Event("init", 0, 0, capitals, [hosts |-> S])
  /\ isValidUrl = validateUrl(url)
  /\ detectedPlatform = Null
  /\ isProcessing = FALSE
  /\ mediaContent = Null
  /\ error = NullStr
  /\ pending = {}
  /\ nextId = 1
  /\ fresh = FALSE

Classify ==
  /\ last.kind = "init"
  /\ detectedPlatform' = detectPlatform(url)
  /\ last' = [last EXCEPT !.kind = "classify"]
  /\ UNCHANGED <<url, isValidUrl, isProcessing, mediaContent, error, pending,
                 nextId, fresh>>

ClassifyNext == Classify

ClassifySpec == ClassifyInit /\ [][ClassifyNext]_vars

(***************************************************************************)
(* C13.  For every set of host substrings occurring in the input, in any   *)
(* order and case, detectPlatform returns a descriptor of the table:       *)
(* Instagram if instagram.com occurs, else X (Twitter) if twitter.com or   *)
(* x.com occurs, else Facebook if facebook.com or fb.com occurs, else      *)
(* Threads if threads.net occurs, else the unknown platform; the first     *)
(* four are supported and the last is not.                                 *)
(***************************************************************************)
C13_FirstMatchWins ==
  last.kind = "classify"
  => LET S == last.link.hosts IN
       /\ detectedPlatform \in {platforms[k] : k \in DOMAIN platforms}
       /\ detectedPlatform.name =
            (IF 1 \in S THEN "Instagram"
             ELSE IF 2 \in S \/ 3 \in S THEN "X (Twitter)"
             ELSE IF 4 \in S \/ 5 \in S THEN "Facebook"
             ELSE IF 6 \in S THEN "Threads"
             ELSE "Unknown Platform")
       /\ detectedPlatform.supported = (S # {})

\* an input in capitals with x.com before instagram.com is Instagram
C13_Witness ==
  /\ last.kind = "classify" /\ last.ok
  /\ last.link.hosts = {1, 3}
  /\ url = ClassifyInput({1, 3}, FALSE, TRUE)
  /\ detectedPlatform = platforms.instagram

(***************************************************************************)
(* C14.  A click on the download button changes none of the six cells,     *)
(* and it hands a link to the host exactly when a result is present; the   *)
(* link then points to the result's downloadUrl.                           *)
(***************************************************************************)
C14_DownloadFrame ==
  [][last'.kind = "download"
       => /\ UNCHANGED cells
          /\ UNCHANGED <<pending, nextId, fresh>>
          /\ (last'.link # Null) <=> (mediaContent # Null)
          /\ mediaContent # Null => last'.link.href = mediaContent.downloadUrl]_vars

\* a download of a result that is present
C14_Witness ==
  /\ last.kind = "download"
  /\ mediaContent # Null
  /\ last.link # Null
  /\ last.link.href = mediaContent.downloadUrl

(***************************************************************************)
(* C15.  In every state isValidUrl is validateUrl(url) for a non-empty url *)
(* and false for the empty one, and detectedPlatform is                    *)
(* detectPlatform(url) when isValidUrl holds and absent otherwise; a       *)
(* settling fetch changes none of url, isValidUrl and detectedPlatform.    *)
(***************************************************************************)
C15_DerivedCells ==
  /\ [](/\ isValidUrl = (url # <<>> /\ validateUrl(url))
        /\ detectedPlatform = IF isValidUrl THEN detectPlatform(url) ELSE Null)
  /\ [][(\E f \in pending : Settles(f))
          => UNCHANGED <<url, isValidUrl, detectedPlatform>>]_vars

\* a fetch settled with success after the input had become invalid
C15_Witness ==
  /\ last.kind = "settle" /\ last.ok
  /\ url = NotAUrl /\ ~isValidUrl /\ detectedPlatform = Null

(***************************************************************************)
(* C16.  Every pending fetch carries the platform detectPlatform returns   *)
(* for its own URL, and the title of a stored result names the platform    *)
(* of the result's downloadUrl.                                            *)
(***************************************************************************)
C16_FetchPlatformOfOwnUrl ==
  /\ \A f \in pending : f.platform = detectPlatform(f.inputUrl)
  /\ mediaContent # Null
       => mediaContent.title =
            detectPlatform(mediaContent.downloadUrl).name \o " "
            \o (IF mediaContent.type = "video" THEN "Video" ELSE "Image")

(***************************************************************************)
(* C17.  While url is empty, the result and the error are absent and       *)
(* isProcessing is false, also when a fetch started before the reset or    *)
(* the clearing settles afterwards.                                        *)
(***************************************************************************)
C17_IdleStaysIdle ==
  url = <<>> => (mediaContent = Null /\ error = NullStr /\ ~isProcessing)

(***************************************************************************)
(* C18.  error is the unsupported-platform message only while the          *)
(* platform is present and unsupported.                                    *)
(***************************************************************************)
C18_AdvisoryOnlyWhenUnsupported ==
  error = UnsupportedMessage
    => (detectedPlatform # Null /\ ~detectedPlatform.supported)

(***************************************************************************)
(* C19.  Whenever a result is present, isValidUrl is true, the platform    *)
(* is present and supported, and the result's downloadUrl is the current   *)
(* url.                                                                    *)
(***************************************************************************)
C19_ResultBelongsToInput ==
  mediaContent # Null
    => /\ isValidUrl
       /\ detectedPlatform # Null
       /\ detectedPlatform.supported
       /\ mediaContent.downloadUrl = url

=============================================================================
